---- MODULE Spec2Model ----
(***************************************************************************)
(* A model of the systemd task driver (systemd/driver.go, systemd/state.go) *)
(* as a state machine: the task registry, the once-guarded D-Bus           *)
(* connection, the driver context, the WaitTask goroutines with the state  *)
(* streams they consume, the fingerprint loops, and the unit options that  *)
(* StartTask writes to the drop-in file of a unit.                         *)
(***************************************************************************)
EXTENDS Integers, Sequences, FiniteSets, TLC

\* ------------------------------------------------------------------ bounds
NumTasks == 2          \* task identifiers the orchestrator uses
MaxHandles == 2        \* task handles created by successful StartTask calls
MaxWaits == 2          \* successful WaitTask calls (goroutines started)
MaxFingerprints == 3   \* Fingerprint calls (loops started)
MaxAttempts == 2       \* dbus.New() calls counted
MaxDevices == 1        \* devices of a task configuration
MaxMounts == 2         \* mounts of a task configuration

TaskIDs == 1..NumTasks
\* the unit names task configurations refer to
Units == {"webserver@1.service"}

\* the sequences over S of length at most n
SeqsUpTo(S, n) == UNION {[1..k -> S] : k \in 0..n}

\* drivers.DeviceConfig and drivers.MountConfig values of task configurations
Devices == [hostPath : {"/dev/fuse"}, taskPath : {"/dev/fuse"}, permissions : {"r", "rwm"}]
Mounts == [hostPath : {"/tmp/alloc", "/srv/data"}, taskPath : {"/alloc", "/data"},
           readonly : BOOLEAN]

\* the task directories cfg.TaskDir() gives, and the other fields of a task
\* configuration that become unit options
TaskDirs == [localDir : {"/a/web/local"},
             sharedAllocDir : {"/a/alloc"},
             secretsDir : {"/a/web/secrets"}]
EnvLists == {<<"A=1", "B=2">>}

\* the task configurations StartTask is called with: cfg.ID, the unit of the
\* driver config, whether DecodeDriverConfig succeeds on it, and the fields
\* the unit options are built from
ConfigsWith(devices, mounts) ==
  [id : TaskIDs, unit : Units, decodable : BOOLEAN,
   envList : EnvLists, cpuShares : {512}, memoryLimitBytes : {67108864},
   devices : devices, mounts : mounts, user : {"www"}, taskDir : TaskDirs,
   stdoutPath : {"/a/alloc/logs/web.stdout.0"},
   stderrPath : {"/a/alloc/logs/web.stderr.0"}]

\* task configurations with no devices and no mounts of their own
TaskConfigs == ConfigsWith({<< >>}, {<< >>})

\* task configurations with devices and mounts, for the unit options
OptionConfigs ==
  {cfg \in ConfigsWith(SeqsUpTo(Devices, MaxDevices), SeqsUpTo(Mounts, MaxMounts)) :
     cfg.decodable}

\* systemd active states, and a nil *UnitStatus for the unit in a snapshot
ActiveStates == {"activating", "active", "deactivating", "inactive", "failed", "unknown"}
Nil == "nil"
Statuses == ActiveStates \cup {Nil}

NoHandle == [unit |-> "", sub |-> 0, decodable |-> FALSE]
\* no nomad.conf in the drop-in directory of a unit
NoFile == [kind |-> "absent", opts |-> << >>]
\* the task handles StartTask creates: the unit, the number of the handle's
\* subscription set, and whether its driver config decodes
Handles == [unit : Units, sub : 1..MaxHandles, decodable : {TRUE}]

VARIABLES
  tasks,         \* d.tasks: the entries (task id, *taskHandle) of the store
  nhandles,      \* number of taskHandles (and subscription sets) created
  once,          \* d.once: "fresh" before the first Do, "done" after
  conn,          \* d.conn: "nil" or "conn"
  connAttempts,  \* number of dbus.New() calls made
  connSeen,      \* the results getConn has returned to its callers
  dctxDone,      \* d.ctx is cancelled
  waits,         \* the WaitTask goroutines, in order of creation
  fps,           \* the handleFingerprint goroutines, in order of creation
  crashed,       \* the process died of an unrecovered panic
  dropin,        \* unit -> what is in <unit>.d/nomad.conf of the units directory
  last           \* the last driver call: its operation, what it returned, and
                 \* whether it got an error from systemd that it dropped

vars == <<tasks, nhandles, once, conn, connAttempts, connSeen, dctxDone, waits, fps, crashed, dropin, last>>

Init ==
  /\ tasks = {}
  /\ nhandles = 0
  /\ once = "fresh"
  /\ conn = "nil"
  /\ connAttempts = 0
  /\ connSeen = {}
  /\ dctxDone = FALSE
  /\ waits = << >>
  /\ fps = << >>
  /\ crashed = FALSE
  /\ dropin = [u \in Units |-> NoFile]
  /\ last = [op |-> "none", ret |-> "none", dropped |-> FALSE]

\* ------------------------------------------------------------ taskStore
\* the entries of the store: a task id (the key) with the handle stored under it
Entry(id, h) == [id |-> id, handle |-> h]

\* the ok result of Get
Found(id) == \E e \in tasks : e.id = id
\* the handle Get returns, nil (NoHandle) when the key is missing
Get(id) == IF Found(id) THEN (CHOOSE e \in tasks : e.id = id).handle ELSE NoHandle

\* a store that keeps what was stored under the key before
SetKeepOld(id, h) == tasks' = tasks \cup {Entry(id, h)}

\* a Delete that removes nothing
DeleteNothing(id) == tasks' = tasks

\* sync.Map.Store: the value stored under the key before is replaced
Set(id, h) == tasks' = {e \in tasks : e.id # id} \cup {Entry(id, h)}
\* sync.Map.Delete: no effect when the key is missing
Delete(id) == tasks' = {e \in tasks : e.id # id}

\* --------------------------------------------------------------- getConn
\* what a caller of getConn gets: the pair (conn, err)
ConnResult(c, e) == [conn |-> c, err |-> e]

\* getConn without the once guard: a nil d.conn is taken to mean "not yet
\* connected", so a failed attempt is made again by the next caller
getConnRetry(newOk, r) ==
  IF conn = "nil"
  THEN /\ connAttempts < MaxAttempts
       /\ once' = "done"
       /\ connAttempts' = connAttempts + 1
       /\ conn' = IF newOk THEN "conn" ELSE conn
       /\ r = IF newOk THEN ConnResult("conn", FALSE) ELSE ConnResult("nil", TRUE)
       /\ connSeen' = connSeen \cup {r}
  ELSE /\ r = ConnResult(conn, FALSE)
       /\ connSeen' = connSeen \cup {r}
       /\ UNCHANGED <<once, conn, connAttempts>>

\* getConn with dbus.New() succeeding (newOk) or failing; r is the pair it
\* returns. err is a local of the call: only the call that runs the once body
\* can return it.
getConn(newOk, r) ==
  IF once = "fresh"
  THEN /\ connAttempts < MaxAttempts
       /\ once' = "done"
       /\ connAttempts' = connAttempts + 1
       /\ conn' = IF newOk THEN "conn" ELSE conn
       /\ r = IF newOk THEN ConnResult("conn", FALSE) ELSE ConnResult("nil", TRUE)
       /\ connSeen' = connSeen \cup {r}
  ELSE /\ r = ConnResult(conn, FALSE)
       /\ connSeen' = connSeen \cup {r}
       /\ UNCHANGED <<once, conn, connAttempts>>

ConnResults == {ConnResult(c, e) : c \in {"nil", "conn"}, e \in BOOLEAN}

Return(op, ret) == last' = [op |-> op, ret |-> ret, dropped |-> FALSE]
\* a return after an error of a D-Bus request was dropped
ReturnDropping(op, ret) == last' = [op |-> op, ret |-> ret, dropped |-> TRUE]
Panic(op) == /\ crashed' = TRUE
             /\ last' = [op |-> op, ret |-> "panic", dropped |-> FALSE]

\* ------------------------------------------------------------ unit options
\* &unit.UnitOption{Section: "Service", Name: name, Value: value}, as the
\* tuple of its three fields
UnitOption(name, value) == <<"Service", name, value>>
OptionName(o) == o[2]
OptionValue(o) == o[3]

\* strings.Join(list, sep)
RECURSIVE Join(_, _)
Join(list, sep) ==
  IF list = << >> THEN ""
  ELSE IF Len(list) = 1 THEN list[1]
  ELSE list[1] \o sep \o Join(Tail(list), sep)

\* the options of all members of a list, one after the other
RECURSIVE Concat(_)
Concat(lists) == IF lists = << >> THEN << >> ELSE lists[1] \o Concat(Tail(lists))

\* BindPaths=<host>:<task> and DeviceAllow=<host> <perm> are appended to the
\* local opts, and nil is returned
deviceToUnitOptions(device) == << >>

mountToUnitOption(mount) ==
  UnitOption(IF mount.readonly THEN "BindPaths" ELSE "BindReadOnlyPaths",
             mount.hostPath \o ":" \o mount.taskPath)

\* the three mounts of the task directories; Readonly is left at false
taskDirMounts(cfg) ==
  << [hostPath |-> cfg.taskDir.localDir, taskPath |-> "/local", readonly |-> FALSE],
     [hostPath |-> cfg.taskDir.sharedAllocDir, taskPath |-> "/alloc", readonly |-> FALSE],
     [hostPath |-> cfg.taskDir.secretsDir, taskPath |-> "/secrets", readonly |-> FALSE] >>

\* the options of a list of mounts, in the order of the list
MountOptions(mounts) == [i \in 1..Len(mounts) |-> mountToUnitOption(mounts[i])]

\* a builder that puts the task directories before the mounts of the task
taskConfigToUnitOptionsDirsFirst(cfg) ==
  << UnitOption("Environment", Join(cfg.envList, " ")),
     UnitOption("CPUShares", ToString(cfg.cpuShares)),
     UnitOption("MemoryLimit", ToString(cfg.memoryLimitBytes)) >>
  \o Concat([i \in 1..Len(cfg.devices) |-> deviceToUnitOptions(cfg.devices[i])])
  \o MountOptions(taskDirMounts(cfg))
  \o << UnitOption("User", cfg.user) >>
  \o MountOptions(cfg.mounts)
  \o << UnitOption("StandardOutput", "file:" \o cfg.stdoutPath),
        UnitOption("StandardError", "file:" \o cfg.stderrPath) >>

taskConfigToUnitOptions(cfg) ==
  << UnitOption("Environment", Join(cfg.envList, " ")),
     UnitOption("CPUShares", ToString(cfg.cpuShares)),
     UnitOption("MemoryLimit", ToString(cfg.memoryLimitBytes)) >>
  \o Concat([i \in 1..Len(cfg.devices) |-> deviceToUnitOptions(cfg.devices[i])])
  \o MountOptions(cfg.mounts)
  \o << UnitOption("User", cfg.user) >>
  \o MountOptions(taskDirMounts(cfg))
  \o << UnitOption("StandardOutput", "file:" \o cfg.stdoutPath),
        UnitOption("StandardError", "file:" \o cfg.stderrPath) >>

\* nomad.conf after io.Copy wrote the options of cfg (from keeps the devices
\* and mounts they were built from), and after it failed part-way
Written(cfg) ==
  [kind |-> "written", opts |-> taskConfigToUnitOptions(cfg),
   from |-> [devices |-> cfg.devices, mounts |-> cfg.mounts]]
Partial == [kind |-> "partial", opts |-> << >>]

\* ------------------------------------------------------------- StartTask
\* io: the first step of the call's I/O that fails ("ok" when none does):
\* os.MkdirAll, os.Create, io.Copy, dbus.New (when this call runs the once
\* body) or conn.StartUnit
StartOutcomes == {"ok", "mkdir", "create", "copy", "dbus", "start"}

\* a StartTask that writes the drop-in before it decodes the task specification
StartTaskWritesFirst(cfg, io) ==
  /\ ~crashed
  /\ io = "dbus" => once = "fresh"
  /\ ~cfg.decodable => io = "ok"   \* no I/O step is reached
  /\ IF ~cfg.decodable
     THEN /\ Return("StartTask", "err_decode")
          /\ dropin' = [dropin EXCEPT ![cfg.unit] = Written(cfg)]
          /\ UNCHANGED <<tasks, nhandles, once, conn, connAttempts, connSeen, crashed>>
     ELSE IF io \in {"mkdir", "create"}
     THEN /\ Return("StartTask", "err_write")
          /\ UNCHANGED <<tasks, nhandles, once, conn, connAttempts, connSeen, crashed, dropin>>
     ELSE IF io = "copy"
     THEN \* os.Create has truncated the file
          /\ dropin' = [dropin EXCEPT ![cfg.unit] = Partial]
          /\ Return("StartTask", "err_write")
          /\ UNCHANGED <<tasks, nhandles, once, conn, connAttempts, connSeen, crashed>>
     ELSE \E r \in ConnResults :
          /\ getConn(io # "dbus", r)
          /\ IF r.err
             THEN /\ Return("StartTask", "err_conn")
                  /\ UNCHANGED <<tasks, nhandles, crashed>>
             ELSE IF r.conn = "nil"
             THEN \* conn.StartUnit on a nil *dbus.Conn
                  /\ Panic("StartTask")
                  /\ UNCHANGED <<tasks, nhandles>>
             ELSE IF io = "start"
             THEN /\ Return("StartTask", "err_start")
                  /\ UNCHANGED <<tasks, nhandles, crashed>>
             ELSE /\ nhandles < MaxHandles
                  /\ nhandles' = nhandles + 1
                  \* the handle's subscription set is the nhandles'-th created
                  /\ Set(cfg.id, [unit |-> cfg.unit, sub |-> nhandles + 1,
                                  decodable |-> cfg.decodable])
                  /\ Return("StartTask", "ok")
                  /\ UNCHANGED crashed
          \* io.Copy wrote the drop-in before getConn was called
          /\ dropin' = [dropin EXCEPT ![cfg.unit] = Written(cfg)]
  /\ UNCHANGED <<dctxDone, waits, fps>>

\* a StartTask that stores the handle before it asks for the unit to start
StartTaskStoresFirst(cfg, io) ==
  /\ ~crashed
  /\ io = "dbus" => once = "fresh"
  /\ ~cfg.decodable => io = "ok"   \* no I/O step is reached
  /\ IF ~cfg.decodable
     THEN /\ Return("StartTask", "err_decode")
          /\ UNCHANGED <<tasks, nhandles, once, conn, connAttempts, connSeen, crashed, dropin>>
     ELSE IF io \in {"mkdir", "create"}
     THEN /\ Return("StartTask", "err_write")
          /\ UNCHANGED <<tasks, nhandles, once, conn, connAttempts, connSeen, crashed, dropin>>
     ELSE IF io = "copy"
     THEN \* os.Create has truncated the file
          /\ dropin' = [dropin EXCEPT ![cfg.unit] = Partial]
          /\ Return("StartTask", "err_write")
          /\ UNCHANGED <<tasks, nhandles, once, conn, connAttempts, connSeen, crashed>>
     ELSE \E r \in ConnResults :
          /\ getConn(io # "dbus", r)
          /\ IF r.err
             THEN /\ Return("StartTask", "err_conn")
                  /\ UNCHANGED <<tasks, nhandles, crashed>>
             ELSE IF r.conn = "nil"
             THEN \* conn.StartUnit on a nil *dbus.Conn
                  /\ Panic("StartTask")
                  /\ UNCHANGED <<tasks, nhandles>>
             ELSE IF io = "start"
             THEN /\ nhandles < MaxHandles
                  /\ nhandles' = nhandles + 1
                  /\ Set(cfg.id, [unit |-> cfg.unit, sub |-> nhandles + 1,
                                  decodable |-> cfg.decodable])
                  /\ Return("StartTask", "err_start")
                  /\ UNCHANGED crashed
             ELSE /\ nhandles < MaxHandles
                  /\ nhandles' = nhandles + 1
                  \* the handle's subscription set is the nhandles'-th created
                  /\ Set(cfg.id, [unit |-> cfg.unit, sub |-> nhandles + 1,
                                  decodable |-> cfg.decodable])
                  /\ Return("StartTask", "ok")
                  /\ UNCHANGED crashed
          \* io.Copy wrote the drop-in before getConn was called
          /\ dropin' = [dropin EXCEPT ![cfg.unit] = Written(cfg)]
  /\ UNCHANGED <<dctxDone, waits, fps>>

\* a StartTask that refuses a task identifier that has a registry entry
StartTaskRejectsExisting(cfg, io) ==
  /\ ~crashed
  /\ io = "dbus" => once = "fresh"
  /\ ~cfg.decodable => io = "ok"   \* no I/O step is reached
  /\ IF ~cfg.decodable
     THEN /\ Return("StartTask", "err_decode")
          /\ UNCHANGED <<tasks, nhandles, once, conn, connAttempts, connSeen, crashed, dropin>>
     ELSE IF Found(cfg.id)
     THEN /\ Return("StartTask", "err_exists")
          /\ UNCHANGED <<tasks, nhandles, once, conn, connAttempts, connSeen, crashed, dropin>>
     ELSE IF io \in {"mkdir", "create"}
     THEN /\ Return("StartTask", "err_write")
          /\ UNCHANGED <<tasks, nhandles, once, conn, connAttempts, connSeen, crashed, dropin>>
     ELSE IF io = "copy"
     THEN \* os.Create has truncated the file
          /\ dropin' = [dropin EXCEPT ![cfg.unit] = Partial]
          /\ Return("StartTask", "err_write")
          /\ UNCHANGED <<tasks, nhandles, once, conn, connAttempts, connSeen, crashed>>
     ELSE \E r \in ConnResults :
          /\ getConn(io # "dbus", r)
          /\ IF r.err
             THEN /\ Return("StartTask", "err_conn")
                  /\ UNCHANGED <<tasks, nhandles, crashed>>
             ELSE IF r.conn = "nil"
             THEN \* conn.StartUnit on a nil *dbus.Conn
                  /\ Panic("StartTask")
                  /\ UNCHANGED <<tasks, nhandles>>
             ELSE IF io = "start"
             THEN /\ Return("StartTask", "err_start")
                  /\ UNCHANGED <<tasks, nhandles, crashed>>
             ELSE /\ nhandles < MaxHandles
                  /\ nhandles' = nhandles + 1
                  \* the handle's subscription set is the nhandles'-th created
                  /\ Set(cfg.id, [unit |-> cfg.unit, sub |-> nhandles + 1,
                                  decodable |-> cfg.decodable])
                  /\ Return("StartTask", "ok")
                  /\ UNCHANGED crashed
          \* io.Copy wrote the drop-in before getConn was called
          /\ dropin' = [dropin EXCEPT ![cfg.unit] = Written(cfg)]
  /\ UNCHANGED <<dctxDone, waits, fps>>

\* a StartTask that restores the drop-in when getConn or StartUnit fails
StartTaskRollsBack(cfg, io) ==
  /\ ~crashed
  /\ io = "dbus" => once = "fresh"
  /\ ~cfg.decodable => io = "ok"   \* no I/O step is reached
  /\ IF ~cfg.decodable
     THEN /\ Return("StartTask", "err_decode")
          /\ UNCHANGED <<tasks, nhandles, once, conn, connAttempts, connSeen, crashed, dropin>>
     ELSE IF io \in {"mkdir", "create"}
     THEN /\ Return("StartTask", "err_write")
          /\ UNCHANGED <<tasks, nhandles, once, conn, connAttempts, connSeen, crashed, dropin>>
     ELSE IF io = "copy"
     THEN \* os.Create has truncated the file
          /\ dropin' = [dropin EXCEPT ![cfg.unit] = Partial]
          /\ Return("StartTask", "err_write")
          /\ UNCHANGED <<tasks, nhandles, once, conn, connAttempts, connSeen, crashed>>
     ELSE \E r \in ConnResults :
          /\ getConn(io # "dbus", r)
          /\ IF r.err
             THEN /\ Return("StartTask", "err_conn")
                  /\ UNCHANGED <<tasks, nhandles, crashed>>
             ELSE IF r.conn = "nil"
             THEN \* conn.StartUnit on a nil *dbus.Conn
                  /\ Panic("StartTask")
                  /\ UNCHANGED <<tasks, nhandles>>
             ELSE IF io = "start"
             THEN /\ Return("StartTask", "err_start")
                  /\ UNCHANGED <<tasks, nhandles, crashed>>
             ELSE /\ nhandles < MaxHandles
                  /\ nhandles' = nhandles + 1
                  \* the handle's subscription set is the nhandles'-th created
                  /\ Set(cfg.id, [unit |-> cfg.unit, sub |-> nhandles + 1,
                                  decodable |-> cfg.decodable])
                  /\ Return("StartTask", "ok")
                  /\ UNCHANGED crashed
          /\ dropin' = IF r.err \/ (r.conn # "nil" /\ io = "start")
                       THEN dropin
                       ELSE [dropin EXCEPT ![cfg.unit] = Written(cfg)]
  /\ UNCHANGED <<dctxDone, waits, fps>>

StartTask(cfg, io) ==
  /\ ~crashed
  /\ io = "dbus" => once = "fresh"
  /\ ~cfg.decodable => io = "ok"   \* no I/O step is reached
  /\ IF ~cfg.decodable
     THEN /\ Return("StartTask", "err_decode")
          /\ UNCHANGED <<tasks, nhandles, once, conn, connAttempts, connSeen, crashed, dropin>>
     ELSE IF io \in {"mkdir", "create"}
     THEN /\ Return("StartTask", "err_write")
          /\ UNCHANGED <<tasks, nhandles, once, conn, connAttempts, connSeen, crashed, dropin>>
     ELSE IF io = "copy"
     THEN \* os.Create has truncated the file
          /\ dropin' = [dropin EXCEPT ![cfg.unit] = Partial]
          /\ Return("StartTask", "err_write")
          /\ UNCHANGED <<tasks, nhandles, once, conn, connAttempts, connSeen, crashed>>
     ELSE \E r \in ConnResults :
          /\ getConn(io # "dbus", r)
          /\ IF r.err
             THEN /\ Return("StartTask", "err_conn")
                  /\ UNCHANGED <<tasks, nhandles, crashed>>
             ELSE IF r.conn = "nil"
             THEN \* conn.StartUnit on a nil *dbus.Conn
                  /\ Panic("StartTask")
                  /\ UNCHANGED <<tasks, nhandles>>
             ELSE IF io = "start"
             THEN /\ Return("StartTask", "err_start")
                  /\ UNCHANGED <<tasks, nhandles, crashed>>
             ELSE /\ nhandles < MaxHandles
                  /\ nhandles' = nhandles + 1
                  \* the handle's subscription set is the nhandles'-th created
                  /\ Set(cfg.id, [unit |-> cfg.unit, sub |-> nhandles + 1,
                                  decodable |-> cfg.decodable])
                  /\ Return("StartTask", "ok")
                  /\ UNCHANGED crashed
          \* io.Copy wrote the drop-in before getConn was called
          /\ dropin' = [dropin EXCEPT ![cfg.unit] = Written(cfg)]
  /\ UNCHANGED <<dctxDone, waits, fps>>

\* -------------------------------------------------------------- WaitTask
\* the goroutine WaitTask starts and the stream Subscribe() opened for it:
\* pending is what the stream's producer is blocked sending on its unbuffered
\* channels ("none", "status" for a snapshot on the status channel, "err" on
\* the error channel); open says the producer is still running
NewWait(id, h) ==
  [id |-> id, sub |-> h.sub, unit |-> h.unit, ctxDone |-> FALSE,
   pc |-> "select", result |-> "none", sent |-> 0, closed |-> FALSE,
   open |-> TRUE, pending |-> "none"]

WaitTask(id) ==
  /\ ~crashed
  /\ IF ~Found(id)
     THEN /\ Return("WaitTask", "err_notfound")
          /\ UNCHANGED waits
     ELSE IF ~Get(id).decodable
     THEN /\ Return("WaitTask", "err_decode")
          /\ UNCHANGED waits
     ELSE /\ Len(waits) < MaxWaits
          /\ waits' = Append(waits, NewWait(id, Get(id)))
          /\ Return("WaitTask", "ok")
  /\ UNCHANGED <<tasks, nhandles, once, conn, connAttempts, connSeen, dctxDone, fps, crashed, dropin>>

Waits == 1..Len(waits)

\* the switch without its "failed" case
IsTerminalInactiveOnly(activeState) == activeState = "inactive"

\* the switch on status.ActiveState: the states that end the wait
IsTerminal(activeState) == activeState \in {"inactive", "failed"}

\* the caller of WaitTask cancels the context it passed (a cancellation
\* after the goroutine has left its select is seen by nobody)
CancelCtx(w) ==
  /\ ~crashed
  /\ waits[w].pc = "select"
  /\ ~waits[w].ctxDone
  /\ waits' = [waits EXCEPT ![w].ctxDone = TRUE]
  /\ UNCHANGED <<tasks, nhandles, once, conn, connAttempts, connSeen, dctxDone, fps, crashed, last, dropin>>

\* the producer of the stream blocks sending on the status channel
\* (x = "status") or on the error channel (x = "err")
Produce(w, x) ==
  /\ ~crashed
  /\ waits[w].open
  /\ waits[w].pending = "none"
  /\ waits' = [waits EXCEPT ![w].pending = x]
  /\ UNCHANGED <<tasks, nhandles, once, conn, connAttempts, connSeen, dctxDone, fps, crashed, last, dropin>>

\* the ctx.Done() case sending an empty result instead of ctx.Err()
WaitCtxDoneNoErr(w) ==
  /\ ~crashed
  /\ waits[w].pc = "select"
  /\ waits[w].ctxDone
  /\ waits' = [waits EXCEPT ![w].pc = "send", ![w].result = "empty"]
  /\ UNCHANGED <<tasks, nhandles, once, conn, connAttempts, connSeen, dctxDone, fps, crashed, last, dropin>>

\* select: case <-ctx.Done()
WaitCtxDone(w) ==
  /\ ~crashed
  /\ waits[w].pc = "select"
  /\ waits[w].ctxDone
  /\ waits' = [waits EXCEPT ![w].pc = "send", ![w].result = "cancel"]
  /\ UNCHANGED <<tasks, nhandles, once, conn, connAttempts, connSeen, dctxDone, fps, crashed, last, dropin>>

\* select: case err := <-errs
WaitSubErr(w) ==
  /\ ~crashed
  /\ waits[w].pc = "select"
  /\ waits[w].pending = "err"
  /\ waits' = [waits EXCEPT ![w].pc = "send", ![w].result = "suberr", ![w].pending = "none"]
  /\ UNCHANGED <<tasks, nhandles, once, conn, connAttempts, connSeen, dctxDone, fps, crashed, last, dropin>>

\* select: case statuses := <-unitStatus, with status = statuses[unit]
WaitStatus(w, status) ==
  /\ ~crashed
  /\ waits[w].pc = "select"
  /\ waits[w].pending = "status"
  /\ IF status = Nil
     THEN \* panic("should never happen by construction"); the deferred
          \* close(ch) runs while the goroutine unwinds
          /\ waits' = [waits EXCEPT ![w].pc = "panic", ![w].closed = TRUE, ![w].pending = "none"]
          /\ crashed' = TRUE
     ELSE IF IsTerminal(status)
     THEN /\ waits' = [waits EXCEPT ![w].pc = "send", ![w].result = "empty", ![w].pending = "none"]
          /\ UNCHANGED crashed
     ELSE /\ waits' = [waits EXCEPT ![w].pending = "none"]
          /\ UNCHANGED crashed
  /\ UNCHANGED <<tasks, nhandles, once, conn, connAttempts, connSeen, dctxDone, fps, last, dropin>>

\* the receiver takes the result off ch; the goroutine returns and the
\* deferred close(ch) runs
WaitSend(w) ==
  /\ ~crashed
  /\ waits[w].pc = "send"
  /\ waits' = [waits EXCEPT ![w].pc = "done", ![w].sent = @ + 1, ![w].closed = TRUE]
  /\ UNCHANGED <<tasks, nhandles, once, conn, connAttempts, connSeen, dctxDone, fps, crashed, last, dropin>>

\* --------------------------------------------------------------- StopTask
\* io: "dbus" when dbus.New fails (if this call runs the once body), "stop"
\* when conn.StopUnit fails
StopOutcomes == {"ok", "dbus", "stop"}

\* a StopTask that removes the task it stopped from the registry
StopTaskDeregisters(id, io) ==
  /\ ~crashed
  /\ io = "dbus" => once = "fresh"
  /\ \E r \in ConnResults :
       /\ getConn(io # "dbus", r)
       /\ IF r.err
          THEN /\ Return("StopTask", "err_conn")
               /\ UNCHANGED crashed
          ELSE IF ~Found(id)
          THEN /\ Return("StopTask", "err_notfound")
               /\ UNCHANGED crashed
          ELSE IF ~Get(id).decodable
          THEN /\ Return("StopTask", "err_decode")
               /\ UNCHANGED crashed
          ELSE IF r.conn = "nil"
          THEN \* conn.StopUnit on a nil *dbus.Conn
               Panic("StopTask")
          ELSE \* the result of conn.StopUnit is dropped
               /\ IF io = "stop"
                  THEN ReturnDropping("StopTask", "ok")
                  ELSE Return("StopTask", "ok")
               /\ UNCHANGED crashed
  /\ IF Found(id) /\ Get(id).decodable /\ conn' = "conn"
     THEN Delete(id)
     ELSE UNCHANGED tasks
  /\ UNCHANGED <<nhandles, dctxDone, waits, fps, dropin>>

\* a StopTask that returns the error of conn.StopUnit
StopTaskPropagates(id, io) ==
  /\ ~crashed
  /\ io = "dbus" => once = "fresh"
  /\ \E r \in ConnResults :
       /\ getConn(io # "dbus", r)
       /\ IF r.err
          THEN /\ Return("StopTask", "err_conn")
               /\ UNCHANGED crashed
          ELSE IF ~Found(id)
          THEN /\ Return("StopTask", "err_notfound")
               /\ UNCHANGED crashed
          ELSE IF ~Get(id).decodable
          THEN /\ Return("StopTask", "err_decode")
               /\ UNCHANGED crashed
          ELSE IF r.conn = "nil"
          THEN \* conn.StopUnit on a nil *dbus.Conn
               Panic("StopTask")
          ELSE \* the result of conn.StopUnit is dropped
               /\ IF io = "stop"
                  THEN Return("StopTask", "err_stop")
                  ELSE Return("StopTask", "ok")
               /\ UNCHANGED crashed
  /\ UNCHANGED <<tasks, nhandles, dctxDone, waits, fps, dropin>>

StopTask(id, io) ==
  /\ ~crashed
  /\ io = "dbus" => once = "fresh"
  /\ \E r \in ConnResults :
       /\ getConn(io # "dbus", r)
       /\ IF r.err
          THEN /\ Return("StopTask", "err_conn")
               /\ UNCHANGED crashed
          ELSE IF ~Found(id)
          THEN /\ Return("StopTask", "err_notfound")
               /\ UNCHANGED crashed
          ELSE IF ~Get(id).decodable
          THEN /\ Return("StopTask", "err_decode")
               /\ UNCHANGED crashed
          ELSE IF r.conn = "nil"
          THEN \* conn.StopUnit on a nil *dbus.Conn
               Panic("StopTask")
          ELSE \* the result of conn.StopUnit is dropped
               /\ IF io = "stop"
                  THEN ReturnDropping("StopTask", "ok")
                  ELSE Return("StopTask", "ok")
               /\ UNCHANGED crashed
  /\ UNCHANGED <<tasks, nhandles, dctxDone, waits, fps, dropin>>

\* ------------------------------------------------------------ DestroyTask
\* a DestroyTask that refuses a registered task unless force is set
DestroyTaskUnlessForced(id, force) ==
  /\ ~crashed
  /\ IF Found(id) /\ ~force
     THEN /\ Return("DestroyTask", "err_running")
          /\ UNCHANGED tasks
     ELSE /\ Delete(id)
          /\ Return("DestroyTask", "ok")
  /\ UNCHANGED <<nhandles, once, conn, connAttempts, connSeen, dctxDone, waits, fps, crashed, dropin>>

DestroyTask(id, force) ==
  /\ ~crashed
  /\ Delete(id)
  /\ Return("DestroyTask", "ok")
  /\ UNCHANGED <<nhandles, once, conn, connAttempts, connSeen, dctxDone, waits, fps, crashed, dropin>>

\* ------------------------------------------------------------ InspectTask
\* the switch without its "failed" case
toTaskStateNoFailed(activeState) ==
  CASE activeState = "activating" -> "unknown"
    [] activeState = "deactivating" -> "unknown"
    [] activeState = "active" -> "running"
    [] activeState = "inactive" -> "exited"
    [] OTHER -> "unknown"

toTaskState(activeState) ==
  CASE activeState = "activating" -> "unknown"
    [] activeState = "deactivating" -> "unknown"
    [] activeState = "failed" -> "exited"
    [] activeState = "active" -> "running"
    [] activeState = "inactive" -> "exited"
    [] OTHER -> "unknown"

\* io: "dbus" when dbus.New fails (if this call runs the once body), "list"
\* when conn.ListUnitsByNames returns an error and no statuses, else the
\* active state of the unit in the status it returns
InspectOutcomes == ActiveStates \cup {"dbus", "list"}

InspectTask(id, io) ==
  /\ ~crashed
  /\ io = "dbus" => once = "fresh"
  /\ IF ~Found(id)
     THEN /\ Return("InspectTask", "err_notfound")
          /\ UNCHANGED <<once, conn, connAttempts, connSeen, crashed>>
     ELSE \E r \in ConnResults :
          /\ getConn(io # "dbus", r)
          /\ IF r.err
             THEN /\ Return("InspectTask", "err_conn")
                  /\ UNCHANGED crashed
             ELSE IF ~Get(id).decodable
             THEN /\ Return("InspectTask", "err_decode")
                  /\ UNCHANGED crashed
             ELSE IF r.conn = "nil"
             THEN \* conn.ListUnitsByNames on a nil *dbus.Conn
                  Panic("InspectTask")
             ELSE IF io = "list"
             THEN \* err is never looked at; statuses[0] of no statuses
                  Panic("InspectTask")
             ELSE /\ Return("InspectTask", toTaskState(io))
                  /\ UNCHANGED crashed
  /\ UNCHANGED <<tasks, nhandles, dctxDone, waits, fps, dropin>>

\* ------------------------------------------------------------ RecoverTask
\* nilHandle: the call is made with a nil handle; id is handle.Config.ID
RecoverTask(id, nilHandle) ==
  /\ ~crashed
  /\ IF nilHandle
     THEN Return("RecoverTask", "err_nil")
     ELSE \* found or not, the call returns nil
          Return("RecoverTask", "ok")
  /\ UNCHANGED <<tasks, nhandles, once, conn, connAttempts, connSeen, dctxDone, waits, fps, crashed, dropin>>

\* ------------------------------------------- TaskStats, SignalTask, ExecTask
\* return nil, nil: no channel and no error
TaskStats(id) ==
  /\ ~crashed
  /\ Return("TaskStats", "ok_nil")
  /\ UNCHANGED <<tasks, nhandles, once, conn, connAttempts, connSeen, dctxDone, waits, fps, crashed, dropin>>

SignalTask(id) ==
  /\ ~crashed
  /\ Return("SignalTask", "err_unsupported")
  /\ UNCHANGED <<tasks, nhandles, once, conn, connAttempts, connSeen, dctxDone, waits, fps, crashed, dropin>>

ExecTask(id) ==
  /\ ~crashed
  /\ Return("ExecTask", "err_unsupported")
  /\ UNCHANGED <<tasks, nhandles, once, conn, connAttempts, connSeen, dctxDone, waits, fps, crashed, dropin>>

\* ------------------------------------------------------------ Fingerprint
Fingerprint ==
  /\ ~crashed
  /\ Len(fps) < MaxFingerprints
  /\ fps' = Append(fps, [ctxDone |-> FALSE, pc |-> "select"])
  /\ Return("Fingerprint", "ok")
  /\ UNCHANGED <<tasks, nhandles, once, conn, connAttempts, connSeen, dctxDone, waits, crashed, dropin>>

Fps == 1..Len(fps)

\* the caller of Fingerprint cancels the context it passed (a cancellation
\* after the loop has returned is seen by nobody)
CancelFingerprintCtx(f) ==
  /\ ~crashed
  /\ fps[f].pc # "closed"
  /\ ~fps[f].ctxDone
  /\ fps' = [fps EXCEPT ![f].ctxDone = TRUE]
  /\ UNCHANGED <<tasks, nhandles, once, conn, connAttempts, connSeen, dctxDone, waits, crashed, last, dropin>>

\* select: case <-ctx.Done(): d.cancel(); return
FingerprintCtxDone(f) ==
  /\ ~crashed
  /\ fps[f].pc = "select"
  /\ fps[f].ctxDone
  /\ dctxDone' = TRUE
  /\ fps' = [fps EXCEPT ![f].pc = "closed"]
  /\ UNCHANGED <<tasks, nhandles, once, conn, connAttempts, connSeen, waits, crashed, last, dropin>>

\* a loop that returns on the driver's context only when its own context is
\* cancelled too
FingerprintDriverDoneOwnOnly(f) ==
  /\ ~crashed
  /\ fps[f].pc = "select"
  /\ dctxDone
  /\ fps[f].ctxDone
  /\ fps' = [fps EXCEPT ![f].pc = "closed"]
  /\ UNCHANGED <<tasks, nhandles, once, conn, connAttempts, connSeen, dctxDone, waits, crashed, last, dropin>>

\* select: case <-d.ctx.Done(): return
FingerprintDriverDone(f) ==
  /\ ~crashed
  /\ fps[f].pc = "select"
  /\ dctxDone
  /\ fps' = [fps EXCEPT ![f].pc = "closed"]
  /\ UNCHANGED <<tasks, nhandles, once, conn, connAttempts, connSeen, dctxDone, waits, crashed, last, dropin>>

\* select: case <-ticker.C: the loop blocks sending a fingerprint on ch
FingerprintTick(f) ==
  /\ ~crashed
  /\ fps[f].pc = "select"
  /\ fps' = [fps EXCEPT ![f].pc = "send"]
  /\ UNCHANGED <<tasks, nhandles, once, conn, connAttempts, connSeen, dctxDone, waits, crashed, last, dropin>>

\* the receiver takes the fingerprint off ch
FingerprintSend(f) ==
  /\ ~crashed
  /\ fps[f].pc = "send"
  /\ fps' = [fps EXCEPT ![f].pc = "select"]
  /\ UNCHANGED <<tasks, nhandles, once, conn, connAttempts, connSeen, dctxDone, waits, crashed, last, dropin>>

\* ------------------------------------------------------------------ Next
StartTaskStep == \E cfg \in TaskConfigs, io \in StartOutcomes : StartTask(cfg, io)
\* the StartTask calls in which nothing fails
StartTaskOkStep == \E cfg \in TaskConfigs : cfg.decodable /\ StartTask(cfg, "ok")
\* the first StartTask of the driver, in which nothing fails
StartTaskFirstStep == nhandles = 0 /\ StartTaskOkStep
WaitTaskStep == \E id \in TaskIDs : WaitTask(id)
\* the WaitTask calls that return not-found, and the first that starts a
\* goroutine
WaitTaskCallStep == \E id \in TaskIDs : (waits = << >> \/ ~Found(id)) /\ WaitTask(id)
StopTaskStep == \E id \in TaskIDs, io \in StopOutcomes : StopTask(id, io)
DestroyTaskStep == \E id \in TaskIDs, force \in BOOLEAN : DestroyTask(id, force)
InspectTaskStep == \E id \in TaskIDs, io \in InspectOutcomes : InspectTask(id, io)
RecoverTaskStep == \E id \in TaskIDs, nilHandle \in BOOLEAN : RecoverTask(id, nilHandle)
\* the calls the driver does not implement
UnsupportedStep ==
  \/ \E id \in TaskIDs : TaskStats(id)
  \/ \E id \in TaskIDs : SignalTask(id)
  \/ \E id \in TaskIDs : ExecTask(id)
\* one step of a WaitTask goroutine
WaitLoopStep ==
  \/ \E w \in Waits : WaitCtxDone(w)
  \/ \E w \in Waits : WaitSubErr(w)
  \/ \E w \in Waits, status \in Statuses : WaitStatus(w, status)
  \/ \E w \in Waits : WaitSend(w)
\* one step of what a WaitTask goroutine listens to
StreamStep ==
  \/ \E w \in Waits : CancelCtx(w)
  \/ \E w \in Waits, x \in {"status", "err"} : Produce(w, x)
\* one step of a handleFingerprint goroutine or of its caller
FingerprintStep ==
  \/ \E f \in Fps : CancelFingerprintCtx(f)
  \/ \E f \in Fps : FingerprintCtxDone(f)
  \/ \E f \in Fps : FingerprintDriverDone(f)
  \/ \E f \in Fps : FingerprintTick(f)
  \/ \E f \in Fps : FingerprintSend(f)

Next ==
  \/ StartTaskStep
  \/ WaitTaskStep
  \/ StopTaskStep
  \/ DestroyTaskStep
  \/ InspectTaskStep
  \/ RecoverTaskStep
  \/ UnsupportedStep
  \/ WaitLoopStep
  \/ StreamStep
  \/ Fingerprint
  \/ FingerprintStep

Spec == Init /\ [][Next]_vars

\* the task calls of the driver alone, no goroutine taking a step (the waits
\* that run side by side are in SpecWait)
NextCalls ==
  \/ StartTaskStep
  \/ WaitTaskCallStep
  \/ StopTaskStep
  \/ InspectTaskStep
  \/ DestroyTaskStep
  \/ RecoverTaskStep
  \/ UnsupportedStep

SpecCalls == Init /\ [][NextCalls]_vars

\* the first task that starts, the waits for it, and the wait goroutines with
\* their streams (the other StartTask calls are in SpecCalls and Spec)
NextWait ==
  \/ StartTaskFirstStep
  \/ WaitTaskStep
  \/ WaitLoopStep
  \/ StreamStep

SpecWait == Init /\ [][NextWait]_vars

\* SpecWait with a goroutine scheduler that lets every wait goroutine take an
\* enabled case of its select, and a caller that receives from the result
\* channel of every wait
WaitFairness ==
  \A w \in 1..MaxWaits :
    /\ WF_vars(w \in Waits /\ WaitSend(w))
    /\ WF_vars(w \in Waits /\ (\/ WaitCtxDone(w)
                               \/ WaitSubErr(w)
                               \/ \E status \in Statuses : WaitStatus(w, status)))

SpecWaitFair == Init /\ [][NextWait]_vars /\ WaitFairness

\* one step of a WaitTask goroutine whose stream delivers nothing, or of the
\* caller that cancels its context
WaitCancelStep ==
  \/ \E w \in Waits : CancelCtx(w)
  \/ \E w \in Waits : WaitCtxDone(w)
  \/ \E w \in Waits : WaitSend(w)

\* shutdown and removal: the wait goroutines and the fingerprint loops with
\* the cancellations they listen to, the calls that start them and DestroyTask
\* (what the streams deliver is in SpecWait)
NextLoops ==
  \/ StartTaskFirstStep
  \/ WaitTaskStep
  \/ DestroyTaskStep
  \/ WaitCancelStep
  \/ Fingerprint
  \/ FingerprintStep

SpecLoops == Init /\ [][NextLoops]_vars

\* the fingerprint loops alone
NextFingerprint ==
  \/ Fingerprint
  \/ FingerprintStep

\* the scheduler lets a loop whose select has a cancellation case ready again
\* and again take it (select picks among its ready cases at random), and the
\* caller of Fingerprint receives from the channel
FingerprintFairness ==
  \A f \in 1..MaxFingerprints :
    /\ SF_vars(f \in Fps /\ FingerprintCtxDone(f))
    /\ SF_vars(f \in Fps /\ FingerprintDriverDone(f))
    /\ WF_vars(f \in Fps /\ FingerprintSend(f))

SpecFingerprint == Init /\ [][NextFingerprint]_vars /\ FingerprintFairness

\* the first StartTask that writes the drop-in of a unit, for task
\* configurations with devices and mounts
StartTaskOptionsStep ==
  /\ \A u \in Units : dropin[u] = NoFile
  /\ \E cfg \in OptionConfigs, io \in StartOutcomes : StartTask(cfg, io)

NextOptions == StartTaskOptionsStep

SpecOptions == Init /\ [][NextOptions]_vars

\* a StartTask for a unit whose drop-in holds mounts, with a task
\* configuration that has none
StartTaskAgainStep ==
  /\ \E u \in Units : dropin[u].kind = "written" /\ dropin[u].from.mounts # << >>
  /\ StartTaskStep

\* the drop-in of a unit written and written again
NextRewrite ==
  \/ StartTaskOptionsStep
  \/ StartTaskAgainStep

SpecRewrite == Init /\ [][NextRewrite]_vars

\* ------------------------------------------------------------ properties
StartErrors == {"err_decode", "err_write", "err_conn", "err_start"}

\* C1: every StartTask that does not succeed returns an error and leaves the
\* registry as it was before the call.
C1_FailedStartReturnsErrorKeepsRegistry ==
  [][StartTaskStep /\ last'.ret # "ok"
       => last'.ret \in StartErrors /\ tasks' = tasks]_vars

\* C2: for a task identifier with no registry entry, WaitTask, StopTask and
\* InspectTask each return the not-found error, whatever the state of the
\* connection; none crashes and WaitTask starts no stream consumer.
C2_UnregisteredIsNotFound ==
  [][\A id \in TaskIDs :
       (/\ ~Found(id)
        /\ \/ WaitTask(id)
           \/ \E io \in StopOutcomes : StopTask(id, io)
           \/ \E io \in InspectOutcomes : InspectTask(id, io))
       => last'.ret = "err_notfound" /\ waits' = waits /\ ~crashed']_vars

\* C3: every WaitTask goroutine sends at most one result, and its channel is
\* closed only after exactly one result was sent.
C3_ExactlyOneResult ==
  \A w \in Waits : /\ waits[w].sent <= 1
                   /\ waits[w].closed => waits[w].sent = 1

\* C4: consuming a snapshot whose active state is inactive or failed ends the
\* loop with the empty result (no error); consuming a snapshot with any other
\* active state sends nothing and stays in the loop.
C4_TerminalStatesEndTheWait ==
  [][\A w \in Waits : \A s \in ActiveStates :
       WaitStatus(w, s) =>
         IF s \in {"inactive", "failed"}
         THEN waits'[w].pc = "send" /\ waits'[w].result = "empty"
         ELSE /\ waits'[w].pc = "select" /\ waits'[w].result = "none"
              /\ waits'[w].sent = 0 /\ ~waits'[w].closed]_vars

C4_Witness ==
  \E w \in Waits : waits[w].pc = "done" /\ waits[w].result = "empty" /\ waits[w].sent = 1

\* C5 as stated: a wait whose context was cancelled before a terminal state
\* was consumed has the cancellation error as its result.
C5_CancelledWaitResultIsCancel ==
  \A w \in Waits :
    waits[w].ctxDone /\ waits[w].pc \in {"send", "done"} => waits[w].result = "cancel"

\* C5 as amended: when the select runs with the context cancelled and nothing
\* pending on the stream, the wait leaves the loop with the cancellation error
\* as its single result; and once a wait has its result it consumes nothing
\* more from its stream.
C5_CancelAloneYieldsCancel ==
  [][\A w \in Waits :
       /\ (/\ waits[w].pc = "select" /\ waits[w].ctxDone /\ waits[w].pending = "none"
           /\ waits'[w].pc # "select")
          => waits'[w].pc = "send" /\ waits'[w].result = "cancel"
       /\ (waits[w].pc = "send" /\ waits[w].result = "cancel")
          => /\ waits'[w].result = "cancel" /\ waits'[w].sent <= 1
             /\ waits'[w].pc = "done" => waits'[w].sent = 1
       /\ (waits[w].pc \in {"send", "done"} /\ waits[w].pending # "none")
          => waits'[w].pending = waits[w].pending]_vars

C5_Witness ==
  \E w \in Waits : /\ waits[w].pc = "done" /\ waits[w].result = "cancel"
                   /\ waits[w].sent = 1 /\ waits[w].pending # "none"

\* C6: a wait goroutine in its select can take a terminating case as soon as
\* the caller's context or the driver's context is cancelled.
C6_BothSignalsEndTheWait ==
  \A w \in Waits :
    waits[w].pc = "select" /\ (waits[w].ctxDone \/ dctxDone) => ENABLED WaitCtxDone(w)

\* C7: after a wait has ended by cancellation its stream is released: the
\* producer is stopped and has nothing left to deliver.
C7_CancelledWaitReleasesStream ==
  \A w \in Waits :
    waits[w].pc = "done" /\ waits[w].result = "cancel"
      => ~waits[w].open /\ waits[w].pending = "none"

\* C8: a stream is open only while the handle it was opened from is the
\* registry's entry for its task.
C8_OpenStreamHasRegisteredHandle ==
  \A w \in Waits :
    waits[w].open => Found(waits[w].id) /\ Get(waits[w].id).sub = waits[w].sub

\* C9: all callers of getConn get one and the same result, and none gets a nil
\* connection with no error.
C9_OneSharedConnResult ==
  /\ Cardinality(connSeen) <= 1
  /\ ConnResult("nil", FALSE) \notin connSeen

\* C10: dbus.New() is called at most once: after the first attempt no other is
\* made and d.conn keeps its value.
C10_ConnectedAtMostOnce ==
  /\ [](connAttempts <= 1)
  /\ [][connAttempts >= 1 => connAttempts' = connAttempts /\ conn' = conn]_vars

C10_Witness ==
  /\ connAttempts = 1
  /\ conn = "nil"
  /\ ConnResult("nil", FALSE) \in connSeen

\* C11: the registry holds at most one task handle per task identifier,
\* whatever StartTask and DestroyTask calls were made, StartTask for an
\* identifier that already has a handle included.
C11_AtMostOneHandlePerTask ==
  \A id \in TaskIDs : Cardinality({e \in tasks : e.id = id}) <= 1

\* a task was started again after a wait on its first handle had begun, and
\* the registry holds the one new handle for it
C11_Witness ==
  \E w \in Waits :
    /\ Found(waits[w].id)
    /\ Get(waits[w].id).sub # waits[w].sub
    /\ Cardinality({e \in tasks : e.id = waits[w].id}) = 1

\* C12: Get reports not-found (and no handle) for every identifier before the
\* first Set, and an identifier becomes found only by a Set on it; after
\* Set(id, h), Get(id) is h; after Delete(id), Get(id) is not-found; and Set
\* and Delete on id leave what Get returns for every other identifier.
C12_RegistryRoundTrip ==
  /\ [](nhandles = 0 => \A id \in TaskIDs : ~Found(id) /\ Get(id) = NoHandle)
  /\ [][\A id \in TaskIDs :
         /\ (~Found(id) /\ Found(id)') => \E h \in Handles : Set(id, h)
         /\ \A h \in Handles :
              Set(id, h) =>
                /\ Found(id)' /\ Get(id)' = h
                /\ \A o \in TaskIDs \ {id} : Found(o)' = Found(o) /\ Get(o)' = Get(o)
         /\ Delete(id) =>
              /\ ~Found(id)' /\ Get(id)' = NoHandle
              /\ \A o \in TaskIDs \ {id} : Found(o)' = Found(o) /\ Get(o)' = Get(o)]_vars

\* the second handle was stored under one identifier and deleted again while
\* the first handle stayed under the other
C12_Witness ==
  \E id \in TaskIDs, o \in TaskIDs :
    /\ o # id /\ nhandles = 2 /\ last.op = "DestroyTask"
    /\ ~Found(id) /\ Found(o) /\ Get(o).sub = 1

\* C13: DestroyTask can always be called and always returns no error, for
\* both values of force; after it the registry has no entry for the task; on
\* a task with no entry it changes nothing.
C13_DestroyAlwaysSucceeds ==
  /\ [](~crashed => \A id \in TaskIDs, force \in BOOLEAN : ENABLED DestroyTask(id, force))
  /\ [][\A id \in TaskIDs, force \in BOOLEAN :
         (last'.op = "DestroyTask" /\ DestroyTask(id, force)) =>
           /\ last'.ret = "ok" /\ ~crashed'
           /\ ~Found(id)'
           /\ \A o \in TaskIDs \ {id} : Found(o)' = Found(o) /\ Get(o)' = Get(o)
           /\ ~Found(id) => tasks' = tasks
           /\ UNCHANGED <<nhandles, once, conn, connAttempts, connSeen, dctxDone, waits, fps>>]_vars

\* a started task was destroyed while a wait on it was going on
C13_Witness ==
  /\ last.op = "DestroyTask" /\ last.ret = "ok"
  /\ \E w \in Waits : ~Found(waits[w].id)

\* C14: no StopTask call changes the registry, whether it returns success or
\* an error: a task that had an entry before the call has the same entry
\* after it, the process is alive, and StopTask can be called on it again.
C14_StopTaskKeepsRegistry ==
  /\ [][\A id \in TaskIDs, io \in StopOutcomes :
         (last'.op = "StopTask" /\ StopTask(id, io)) =>
           /\ tasks' = tasks
           /\ ~crashed'
           /\ Found(id) => Found(id)' /\ Get(id)' = Get(id)]_vars
  /\ [](\A id \in TaskIDs :
         (~crashed /\ Found(id) /\ last.op = "StopTask") => ENABLED StopTask(id, "ok"))

\* the one task ever started was stopped and is still registered
C14_Witness ==
  /\ last.op = "StopTask" /\ last.ret = "ok"
  /\ nhandles = 1 /\ Cardinality(tasks) = 1

\* C15: StopTask of a registered task returns success whether conn.StopUnit
\* succeeded or failed, and it returns at once: it can be called whenever the
\* task is registered and it moves no wait.
C15_StopFailureNotPropagated ==
  /\ [][\A id \in TaskIDs, io \in {"ok", "stop"} :
         (last'.op = "StopTask" /\ Found(id) /\ StopTask(id, io))
           => last'.ret = "ok" /\ waits' = waits]_vars
  /\ [](\A id \in TaskIDs, io \in {"ok", "stop"} :
         (~crashed /\ Found(id)) => ENABLED StopTask(id, io))

\* conn.StopUnit failed for a registered task and StopTask returned success
C15_Witness ==
  /\ last.op = "StopTask" /\ last.ret = "ok" /\ last.dropped
  /\ tasks # {}

\* C16: when the status query of an InspectTask of a registered task fails
\* (conn.ListUnitsByNames returns an error and no status), InspectTask returns
\* an error: it does not crash and returns no task state.
C16_InspectFailureIsAnError ==
  [][\A id \in TaskIDs :
       (last'.op = "InspectTask" /\ Found(id) /\ InspectTask(id, "list"))
         => /\ last'.ret \notin {"panic", "running", "exited", "unknown"}
            /\ ~crashed']_vars

\* C17: InspectTask of a registered task returns the task state the table
\* gives for the active state the unit has at the call: running for active,
\* exited for inactive and for failed, unknown for activating, deactivating
\* and every other one.
C17_InspectMapsActiveState ==
  [][\A id \in TaskIDs, s \in ActiveStates :
       (last'.op = "InspectTask" /\ Found(id) /\ InspectTask(id, s))
         => /\ ~crashed'
            /\ last'.ret = IF s = "active" THEN "running"
                           ELSE IF s \in {"inactive", "failed"} THEN "exited"
                           ELSE "unknown"]_vars

\* a registered task was inspected and reported as exited
C17_Witness ==
  last.op = "InspectTask" /\ last.ret = "exited" /\ tasks # {}

\* the options of a nomad.conf that bind a path into the unit, in file order
IsBindOption(o) == OptionName(o) \in {"BindPaths", "BindReadOnlyPaths"}
BindOptions(opts) == SelectSeq(opts, IsBindOption)
IsDeviceAllow(o) == OptionName(o) = "DeviceAllow"
\* the units whose drop-in was written in full
WrittenUnits == {u \in Units : dropin[u].kind = "written"}
\* the bind option of the j-th of the mounts of a configuration: the three
\* task directories are the last bind options and the mounts of the
\* configuration come right before them
MountOption(mounts, binds, j) == binds[Len(binds) - 3 - Len(mounts) + j]

\* C18: the options written for a task configuration hold, for each device,
\* BindPaths=<host>:<task> and DeviceAllow=<host> <perm>, two options per
\* device and one per mount in all, and the name of a mount's option is a
\* function of the mount's read-only flag alone.
C18_TwoPerDeviceOnePerMount ==
  \A u \in WrittenUnits :
    LET devices == dropin[u].from.devices
        mounts == dropin[u].from.mounts
        opts == dropin[u].opts
        binds == BindOptions(opts)
    IN /\ Len(SelectSeq(opts, IsDeviceAllow)) = Len(devices)
       /\ Len(binds) = Len(devices) + Len(mounts) + 3
       /\ \A i \in 1..Len(devices) :
            \E k \in 1..(Len(opts) - 1) :
              /\ opts[k] = UnitOption("BindPaths", devices[i].hostPath \o ":" \o devices[i].taskPath)
              /\ opts[k + 1] = UnitOption("DeviceAllow", devices[i].hostPath \o " " \o devices[i].permissions)
       /\ \E f \in [BOOLEAN -> {"BindPaths", "BindReadOnlyPaths"}] :
            \A j \in 1..Len(mounts) :
              OptionName(MountOption(mounts, binds, j)) = f[mounts[j].readonly]

\* C19: the option written for a mount is BindPaths=<host>:<task> when the
\* mount is writable and BindReadOnlyPaths=<host>:<task> when it is
\* read-only; the writable mount of /tmp/alloc on /alloc gives
\* BindPaths=/tmp/alloc:/alloc.
C19_WritableMountIsBindPaths ==
  \A u \in WrittenUnits :
    LET mounts == dropin[u].from.mounts
        binds == BindOptions(dropin[u].opts)
    IN /\ Len(binds) >= Len(mounts) + 3
       /\ \A j \in 1..Len(mounts) :
            /\ MountOption(mounts, binds, j) =
                 UnitOption(IF mounts[j].readonly THEN "BindReadOnlyPaths" ELSE "BindPaths",
                            mounts[j].hostPath \o ":" \o mounts[j].taskPath)
            /\ mounts[j] = [hostPath |-> "/tmp/alloc", taskPath |-> "/alloc", readonly |-> FALSE]
                 => MountOption(mounts, binds, j) = UnitOption("BindPaths", "/tmp/alloc:/alloc")

\* C20: whatever the mounts of the task configuration, the options written
\* end their bind options with exactly three for the task directories, one
\* each on /local, /alloc and /secrets; the options of the mounts of the
\* configuration come right before them, in order, and every bind option
\* before those is a device's.
C20_TaskDirMountsComeLast ==
  \A u \in WrittenUnits :
    LET devices == dropin[u].from.devices
        mounts == dropin[u].from.mounts
        binds == BindOptions(dropin[u].opts)
        n == Len(binds)
        m == Len(mounts)
    IN /\ n >= m + 3
       /\ \E dir \in TaskDirs :
            {OptionValue(binds[k]) : k \in (n - 2)..n} =
              { dir.localDir \o ":/local",
                dir.sharedAllocDir \o ":/alloc",
                dir.secretsDir \o ":/secrets" }
       /\ \A j \in 1..m :
            OptionValue(binds[n - 3 - m + j]) = mounts[j].hostPath \o ":" \o mounts[j].taskPath
       /\ \A k \in 1..(n - 3 - m) :
            \E i \in 1..Len(devices) :
              OptionValue(binds[k]) = devices[i].hostPath \o ":" \o devices[i].taskPath

\* a drop-in written for a configuration with two mounts, the first of them
\* on /alloc: five bind options, the first of them that mount's
C20_Witness ==
  \E u \in WrittenUnits :
    /\ Len(dropin[u].from.mounts) = 2
    /\ dropin[u].from.mounts[1].taskPath = "/alloc"
    /\ Len(BindOptions(dropin[u].opts)) = 5
    /\ OptionValue(BindOptions(dropin[u].opts)[1]) = "/tmp/alloc:/alloc"

\* C21: RecoverTask never changes the registry, and while a task identifier
\* has no entry after a RecoverTask, the WaitTask, StopTask and InspectTask
\* called for it return not-found
C21_RecoverTaskRegistersNothing ==
  /\ [][\A id \in TaskIDs, nilHandle \in BOOLEAN :
          RecoverTask(id, nilHandle) => tasks' = tasks]_vars
  /\ [][\A id \in TaskIDs :
          /\ last.op = "RecoverTask"
          /\ ~Found(id)
          /\ \/ WaitTask(id)
             \/ \E io \in StopOutcomes : StopTask(id, io)
             \/ \E io \in InspectOutcomes : InspectTask(id, io)
          => last'.ret = "err_notfound"]_vars

\* C22: SignalTask, ExecTask and TaskStats return an unsupported-operation
\* error for every task identifier and change neither the registry nor the
\* D-Bus connection state
C22_UnsupportedCallsReturnError ==
  [][\A id \in TaskIDs :
       TaskStats(id) \/ SignalTask(id) \/ ExecTask(id)
       => /\ last'.ret = "err_unsupported"
          /\ UNCHANGED <<tasks, once, conn, connAttempts, connSeen>>]_vars

\* C23: a StartTask whose task specification does not decode returns the
\* decode error and changes nothing: the drop-in, the connection state of
\* getConn and the registry are as before the call
C23_DecodeFailureHasNoSideEffect ==
  [][\A cfg \in TaskConfigs :
       /\ last'.op = "StartTask"
       /\ ~cfg.decodable
       /\ StartTask(cfg, "ok")
       => /\ last'.ret = "err_decode"
          /\ UNCHANGED <<tasks, nhandles, once, conn, connAttempts, connSeen, dropin, crashed>>]_vars

\* a decode failure after a StartTask that wrote a drop-in and registered a
\* task
C23_Witness ==
  /\ last.op = "StartTask"
  /\ last.ret = "err_decode"
  /\ tasks # {}
  /\ \E u \in Units : dropin[u].kind = "written"

\* C24: StartTask writes the drop-in, then starts the unit, then stores the
\* handle: a filesystem failure ends the call before getConn and before any
\* start-unit request, a start-unit request (failed or not) finds the drop-in
\* written in full, and the registry changes only in a call whose start-unit
\* request succeeded
C24_WriteThenStartThenStore ==
  [][\A cfg \in TaskConfigs, io \in StartOutcomes :
       /\ last'.op = "StartTask"
       /\ StartTask(cfg, io)
       => /\ (cfg.decodable /\ io \in {"mkdir", "create", "copy"})
             => /\ last'.ret = "err_write"
                /\ UNCHANGED <<tasks, nhandles, once, conn, connAttempts, connSeen>>
          /\ last'.ret \in {"err_start", "ok"}
             => /\ io \in {"start", "ok"}
                /\ dropin'[cfg.unit].kind = "written"
          /\ (tasks' # tasks \/ nhandles' # nhandles)
             => /\ io = "ok"
                /\ last'.ret = "ok"
                /\ dropin'[cfg.unit].kind = "written"
                /\ conn' = "conn"]_vars

\* a StartTask whose start-unit request failed after an earlier StartTask
\* stored a handle: the drop-in is written and the registry holds only the
\* handle of the earlier call
C24_Witness ==
  /\ last.op = "StartTask"
  /\ last.ret = "err_start"
  /\ nhandles = 1
  /\ Cardinality(tasks) = 1
  /\ \E u \in Units : dropin[u].kind = "written"

\* C25: a wait that consumes a snapshot or an error of its stream leaves every
\* other wait and its stream as they are, and once one wait on a task has
\* observed the terminal state, no other wait on that task ends without a
\* result of its own
C25_ConcurrentWaitsEachObserve ==
  /\ [][\A w \in Waits :
          (WaitSubErr(w) \/ \E status \in Statuses : WaitStatus(w, status))
          => \A v \in Waits \ {w} : waits'[v] = waits[v]]_vars
  /\ [](\A w \in Waits, v \in Waits :
          /\ w # v
          /\ waits[w].id = waits[v].id
          /\ waits[w].sub = waits[v].sub
          /\ waits[w].result = "empty"
          /\ waits[v].closed
          => waits[v].sent = 1)

\* C26: under WaitFairness, a wait that has received a snapshot with active
\* state inactive or failed eventually has sent its result and closed its
\* channel
C26_TerminalSnapshotEndsTheWait ==
  \A w \in 1..MaxWaits :
    (w \in Waits /\ waits[w].pc = "send" /\ waits[w].result = "empty")
      ~> (w \in Waits /\ waits[w].pc = "done" /\ waits[w].sent = 1 /\ waits[w].closed)

\* C27: no wait goroutine is ever in the panic branch of its loop
C27_PanicBranchUnreachable ==
  \A w \in Waits : waits[w].pc # "panic"

\* C28: a StartTask for a task identifier that has a registry entry is not
\* refused: when nothing fails it writes the drop-in, returns ok and leaves
\* the new handle as the only entry of the identifier, the previous handle
\* being in the registry no more
C28_RestartReplacesHandle ==
  [][\A cfg \in TaskConfigs :
       /\ last'.op = "StartTask"
       /\ cfg.decodable
       /\ Found(cfg.id)
       /\ StartTask(cfg, "ok")
       => /\ last'.ret = "ok"
          /\ dropin'[cfg.unit].kind = "written"
          /\ Get(cfg.id).sub # nhandles'
          /\ Entry(cfg.id, Get(cfg.id)) \notin tasks'
          /\ {e \in tasks' : e.id = cfg.id}
               = {Entry(cfg.id, [unit |-> cfg.unit, sub |-> nhandles', decodable |-> TRUE])}]_vars

\* a task started twice: a wait still holds the subscription of the first
\* handle, the registry holds the second
C28_Witness ==
  /\ last.op = "StartTask"
  /\ last.ret = "ok"
  /\ \E w \in Waits :
       /\ Found(waits[w].id)
       /\ waits[w].sub = 1
       /\ Get(waits[w].id).sub = 2

\* C29: a StartTask that fails at getConn or at the start-unit request leaves
\* the drop-in it wrote: the file holds the options built from the task
\* configuration of the failed call, whatever it held before
C29_FailedStartLeavesDropIn ==
  /\ [][\A cfg \in TaskConfigs, io \in StartOutcomes :
          /\ last'.op = "StartTask"
          /\ last'.ret \in {"err_conn", "err_start"}
          /\ StartTask(cfg, io)
          => dropin'[cfg.unit] = Written(cfg)]_vars
  /\ [](last.op = "StartTask" /\ last.ret \in {"err_conn", "err_start"}
          => \E u \in Units : dropin[u].kind = "written")

\* the start-unit request of a StartTask failed after an earlier StartTask
\* had stored a handle and the drop-in held mounts: the drop-in now holds the
\* options of the failed call, which has no mounts
C29_Witness ==
  /\ last.op = "StartTask"
  /\ last.ret = "err_start"
  /\ nhandles = 1
  /\ \E u \in Units : dropin[u].kind = "written" /\ dropin[u].from.mounts = << >>

\* C30: a fingerprint loop that takes the cancellation of its own context
\* cancels the driver's context and closes its channel; with the driver's
\* context cancelled every loop in its select can return, its own context
\* cancelled or not; and under FingerprintFairness a cancelled stream leads to
\* the driver's context cancelled and every loop returned, its channel closed
C30_OneCancelledStreamEndsAllLoops ==
  /\ [][\A f \in Fps :
          FingerprintCtxDone(f) => dctxDone' /\ fps'[f].pc = "closed"]_vars
  /\ [](\A g \in Fps :
          dctxDone /\ fps[g].pc = "select" => ENABLED FingerprintDriverDone(g))
  /\ \A f \in 1..MaxFingerprints :
       (f \in Fps /\ fps[f].ctxDone)
         ~> (dctxDone /\ \A g \in Fps : fps[g].pc = "closed")

\* three loops have returned though the context of only one was cancelled
C30_Witness ==
  /\ dctxDone
  /\ Len(fps) = MaxFingerprints
  /\ \A g \in Fps : fps[g].pc = "closed"
  /\ Cardinality({g \in Fps : fps[g].ctxDone}) = 1

====
